---- MODULE Spec2Model ----
(***************************************************************************)
(* Model of customtwitter.py: the APIX client.  One client object holds    *)
(* key, host, APIheaders and the scratch attribute params; seven methods   *)
(* validate their arguments, rebuild params and issue one requests.get.    *)
(*                                                                         *)
(* Python str values that the code inspects or copies into the query       *)
(* parameters are sequences of one-character strings; None is a value that *)
(* is no such sequence.  key and host are opaque tokens.                   *)
(***************************************************************************)
EXTENDS Integers, Sequences, FiniteSets, TLC

VARIABLES key, host, APIheaders, params, call, sent, result, prev_names, th

vars == <<key, host, APIheaders, params, call, sent, result, prev_names, th>>

(***************************************************************************)
(* Bounds and input sets                                                   *)
(***************************************************************************)
MaxLen == 2

Chars == {"7", "-", " "}

None == <<"None">>

RECURSIVE SeqsUpTo(_)
SeqsUpTo(n) ==
    IF n = 0 THEN {<<>>}
    ELSE LET shorter == SeqsUpTo(n - 1)
         IN  shorter \cup {Append(s, c) : s \in {x \in shorter : Len(x) = n - 1}, c \in Chars}

\* every string over Chars up to MaxLen, and some longer or odder ones
EdgeIds ==
    { <<"0">>, <<"-", "0">>, <<"0", "7">>, <<" ", "-", "7", " ">>, <<"+", "7">>,
      <<"7", "_", "7">>, <<"7", "_">>, <<"7", ".", "0">>, <<"a", "b", "c">> }

Ids == SeqsUpTo(MaxLen) \cup EdgeIds

Keys == {"k1"}

DefaultHost == "twitter-api45.p.rapidapi.com"

Hosts == {DefaultHost, "proxy.example.org"}

Cursors == {<<"c", "1">>}

Keywords == {<<"x">>, <<"y">>}

Screennames == {<<"a", "l">>, <<"b", "o">>}

TwitterIds == {<<"1", "2">>}

SearchTypeInputs ==
    { <<>>, <<"T", "o", "p">>, <<"T", "O", "P">>,
      <<"l", "a", "t", "e", "s", "t">>, <<"m", "e", "d", "i", "a">>,
      <<"p", "e", "o", "p", "l", "e">>, <<"l", "i", "s", "t", "s">>,
      <<"b", "o", "g", "u", "s">>, <<" ">> }

(***************************************************************************)
(* Python library behaviour used by the code                               *)
(***************************************************************************)
Whitespace == {" ", "\t", "\n"}

Digits == {"0", "1", "2", "3", "4", "5", "6", "7", "8", "9"}

RECURSIVE lstrip(_)
lstrip(s) == IF s # <<>> /\ Head(s) \in Whitespace THEN lstrip(Tail(s)) ELSE s

RECURSIVE rstrip(_)
rstrip(s) ==
    IF s # <<>> /\ s[Len(s)] \in Whitespace THEN rstrip(SubSeq(s, 1, Len(s) - 1)) ELSE s

strip(s) == rstrip(lstrip(s))

\* int(str) succeeds: optional surrounding whitespace, an optional sign, then
\* decimal digits in which single underscores may separate digits.
ParsesAsInt(s) ==
    LET t == strip(s)
        u == IF t # <<>> /\ Head(t) \in {"+", "-"} THEN Tail(t) ELSE t
    IN  /\ u # <<>>
        /\ u[1] \in Digits
        /\ u[Len(u)] \in Digits
        /\ \A i \in 1..Len(u) : u[i] \in Digits \cup {"_"}
        /\ \A i \in 1..(Len(u) - 1) : ~(u[i] = "_" /\ u[i + 1] = "_")

LowerLetters == <<"a", "b", "d", "e", "g", "i", "l", "m", "o", "p", "s", "t", "u">>

UpperLetters == <<"A", "B", "D", "E", "G", "I", "L", "M", "O", "P", "S", "T", "U">>

UpperChar(c) ==
    IF \E i \in 1..Len(LowerLetters) : LowerLetters[i] = c
    THEN UpperLetters[CHOOSE i \in 1..Len(LowerLetters) : LowerLetters[i] = c]
    ELSE c

\* str.upper()
upper(s) == [i \in 1..Len(s) |-> UpperChar(s[i])]

\* dict: a function from the names present to their values
EmptyDict == [k \in {} |-> None]

DictSet(d, k, v) == (k :> v) @@ d

RECURSIVE ApplyWrites(_, _)
ApplyWrites(d, ws) ==
    IF ws = <<>> THEN d ELSE ApplyWrites(DictSet(d, ws[1][1], ws[1][2]), Tail(ws))


(***************************************************************************)
(* The network and response.json()                                         *)
(***************************************************************************)
Bodies == {"[]", "<html>"}

\* what requests.get can do: raise (no response) or hand back a response
Nets == {[kind |-> "raise", body |-> ""]} \cup {[kind |-> "response", body |-> b] : b \in Bodies}

IsJson(body) == body \in {"[]", "null"}

\* json.loads of a body that is JSON
json(body) == CASE body = "[]" -> "list()" [] body = "null" -> "None" [] OTHER -> "undefined"

NoValue == "no value"

Raised(kind) == [kind |-> kind, value |-> NoValue]

Request(url, headers, p, net) == [url |-> url, headers |-> headers, params |-> p, net |-> net]

Url(authority, path) == [scheme |-> "https", authority |-> authority, path |-> path]

\* the host header taken from the URL instead of the stored header set
Exchange_hostFromUrl(url, headers, p, net) ==
    LET h == [headers EXCEPT !["X-RapidAPI-Host"] = url.authority]
    IN  [ sent   |-> <<Request(url, h, p, net)>>,
          result |-> IF net.kind = "raise" THEN Raised("TransportFailure")
                     ELSE IF ~IsJson(net.body) THEN Raised("DecodeFailure")
                     ELSE [kind |-> "ok", value |-> json(net.body)] ]

\* a transport failure answered by one more attempt
Exchange_retry(url, headers, p, net) ==
    [ sent   |-> IF net.kind = "raise"
                 THEN <<Request(url, headers, p, net), Request(url, headers, p, net)>>
                 ELSE <<Request(url, headers, p, net)>>,
      result |-> IF net.kind = "raise" THEN Raised("TransportFailure")
                 ELSE IF ~IsJson(net.body) THEN Raised("DecodeFailure")
                 ELSE [kind |-> "ok", value |-> json(net.body)] ]

\* response = requests.get(url, headers = self.APIheaders, params = self.params)
\* return response.json()
\* Yields the requests issued and how the call ends.
Exchange(url, headers, p, net) ==
    [ sent   |-> <<Request(url, headers, p, net)>>,
      result |-> IF net.kind = "raise" THEN Raised("TransportFailure")
                 ELSE IF ~IsJson(net.body) THEN Raised("DecodeFailure")
                 ELSE [kind |-> "ok", value |-> json(net.body)] ]

(***************************************************************************)
(* The methods: validation, the writes to self.params, the URL             *)
(***************************************************************************)
Call(op, id, cursor, keyword, search_type, screenname, twitter_id) ==
    [ op |-> op, id |-> id, cursor |-> cursor, keyword |-> keyword,
      search_type |-> search_type, screenname |-> screenname, twitter_id |-> twitter_id ]

NoCall == Call("none", None, None, None, None, None, None)

OptCursor(cursor) == IF cursor # None THEN <<<<"cursor", cursor>>>> ELSE <<>>

OptRestId(twitter_id) == IF twitter_id # None THEN <<<<"rest_id", twitter_id>>>> ELSE <<>>

getLatestReplies_valid(id) == ParsesAsInt(id)

getLatestReplies_writes(id) == <<<<"id", id>>>>

getLatestReplies_params(old, id) == ApplyWrites(EmptyDict, getLatestReplies_writes(id))

getLatestReplies_url == Url("twitter-api45.p.rapidapi.com", "latest_replies.php")

getRetweets_valid(id) == ParsesAsInt(id)

getRetweets_writes(id) == <<<<"id", id>>>>

getRetweets_params(old, id) == ApplyWrites(EmptyDict, getRetweets_writes(id))

getRetweets_url == Url("twitter-api45.p.rapidapi.com", "retweets.php")

types == { <<"T", "O", "P">>, <<"L", "A", "T", "E", "S", "T">>, <<"M", "E", "D", "I", "A">>,
           <<"P", "E", "O", "P", "L", "E">>, <<"L", "I", "S", "T", "S">> }

searchTweet_valid(search_type) ==
    ~(upper(search_type) \notin types /\ upper(search_type) # <<>>)

\* search_types sent as typed by the caller instead of upper-cased
searchTweet_writes_raw(keyword, search_type, cursor) ==
    <<<<"query", keyword>>>>
    \o (IF upper(search_type) \in types THEN <<<<"search_types", search_type>>>> ELSE <<>>)
    \o OptCursor(cursor)

searchTweet_writes(keyword, search_type, cursor) ==
    <<<<"query", keyword>>>>
    \o (IF upper(search_type) \in types THEN <<<<"search_types", upper(search_type)>>>> ELSE <<>>)
    \o OptCursor(cursor)

searchTweet_params(old, keyword, search_type, cursor) ==
    ApplyWrites(EmptyDict, searchTweet_writes(keyword, search_type, cursor))

searchTweet_url == Url("twitter-api45.p.rapidapi.com", "search.php")

getTweetInfo_valid(id) == ParsesAsInt(id)

\* the id sent after normalising it instead of as given
getTweetInfo_writes_stripped(id) == <<<<"id", strip(id)>>>>

getTweetInfo_writes(id) == <<<<"id", id>>>>

\* self.params = {} left out: the writes land in the previous call's dict
getTweetInfo_params_noreset(old, id) == ApplyWrites(old, getTweetInfo_writes(id))

getTweetInfo_params(old, id) == ApplyWrites(EmptyDict, getTweetInfo_writes(id))

getTweetInfo_url == Url("twitter-api45.p.rapidapi.com", "tweet.php")

\* the try/except around int(id) left out
getTweetThread_valid_unchecked(id) == TRUE

getTweetThread_valid(id) == ParsesAsInt(id)

getTweetThread_writes(id, cursor) == <<<<"id", id>>>> \o OptCursor(cursor)

getTweetThread_params(old, id, cursor) == ApplyWrites(EmptyDict, getTweetThread_writes(id, cursor))

getTweetThread_url == Url("twitter-api45.p.rapidapi.com", "tweet_thread.php")

getUserInfo_writes(screenname, twitter_id) ==
    <<<<"screenname", screenname>>>> \o OptRestId(twitter_id)

getUserInfo_params(old, screenname, twitter_id) ==
    ApplyWrites(EmptyDict, getUserInfo_writes(screenname, twitter_id))

getUserInfo_url == Url("twitter-api45.p.rapidapi.com", "screenname.php")

\* the cursor test nested under the twitter_id test
getUserTimeline_writes_nested(screenname, twitter_id, cursor) ==
    <<<<"screenname", screenname>>>>
    \o (IF twitter_id # None THEN OptRestId(twitter_id) \o OptCursor(cursor) ELSE <<>>)

getUserTimeline_writes(screenname, twitter_id, cursor) ==
    <<<<"screenname", screenname>>>> \o OptRestId(twitter_id) \o OptCursor(cursor)

getUserTimeline_params(old, screenname, twitter_id, cursor) ==
    ApplyWrites(EmptyDict, getUserTimeline_writes(screenname, twitter_id, cursor))

getUserTimeline_url == Url("twitter-api45.p.rapidapi.com", "timeline.php")

(***************************************************************************)
(* One client, calls one after another                                     *)
(***************************************************************************)
Unbound == [bound |-> FALSE, d |-> EmptyDict]

Bound(d) == [bound |-> TRUE, d |-> d]

Idle == [pc |-> "idle", call |-> NoCall, todo |-> <<>>, sent |-> <<>>, result |-> Raised("none")]

Threads == {1, 2}

\* APIX.__init__(key, host)
Init ==
    /\ key \in Keys
    /\ host \in Hosts
    /\ APIheaders = [h \in {"X-RapidAPI-Key", "X-RapidAPI-Host"} |->
                        IF h = "X-RapidAPI-Key" THEN key ELSE host]
    /\ params = Unbound
    /\ call = NoCall
    /\ sent = <<>>
    /\ result = Raised("none")
    /\ prev_names = {}
    /\ th = [t \in Threads |-> Idle]

\* self.params = {} placed ahead of the validation
Raise_afterReset(c) ==
    /\ call' = c
    /\ result' = Raised("InvalidArgument")
    /\ sent' = <<>>
    /\ prev_names' = DOMAIN params.d
    /\ params' = Bound(EmptyDict)
    /\ UNCHANGED <<key, host, APIheaders, th>>

\* ValueError raised before anything is written
Raise(c) ==
    /\ call' = c
    /\ result' = Raised("InvalidArgument")
    /\ sent' = <<>>
    /\ prev_names' = DOMAIN params.d
    /\ UNCHANGED <<key, host, APIheaders, params, th>>

\* the rest of a method once validation has passed
Proceed(c, d, url) ==
    \E net \in Nets :
        LET x == Exchange(url, APIheaders, d, net)
        IN  /\ call' = c
            /\ params' = Bound(d)
            /\ sent' = x.sent
            /\ result' = x.result
            /\ prev_names' = DOMAIN params.d
            /\ UNCHANGED <<key, host, APIheaders, th>>

getLatestReplies ==
    \E id \in Ids :
        LET c == Call("getLatestReplies", id, None, None, None, None, None)
        IN  IF ~getLatestReplies_valid(id) THEN Raise(c)
            ELSE Proceed(c, getLatestReplies_params(params.d, id), getLatestReplies_url)

getRetweets ==
    \E id \in Ids :
        LET c == Call("getRetweets", id, None, None, None, None, None)
        IN  IF ~getRetweets_valid(id) THEN Raise(c)
            ELSE Proceed(c, getRetweets_params(params.d, id), getRetweets_url)

searchTweet ==
    \E keyword \in Keywords, search_type \in SearchTypeInputs,
       cursor \in Cursors \cup {None} :
        LET c == Call("searchTweet", None, cursor, keyword, search_type, None, None)
        IN  IF ~searchTweet_valid(search_type) THEN Raise(c)
            ELSE Proceed(c, searchTweet_params(params.d, keyword, search_type, cursor),
                         searchTweet_url)

getTweetInfo ==
    \E id \in Ids :
        LET c == Call("getTweetInfo", id, None, None, None, None, None)
        IN  IF ~getTweetInfo_valid(id) THEN Raise(c)
            ELSE Proceed(c, getTweetInfo_params(params.d, id), getTweetInfo_url)

getTweetThread ==
    \E id \in Ids, cursor \in Cursors \cup {None} :
        LET c == Call("getTweetThread", id, cursor, None, None, None, None)
        IN  IF ~getTweetThread_valid(id) THEN Raise(c)
            ELSE Proceed(c, getTweetThread_params(params.d, id, cursor), getTweetThread_url)

getUserInfo ==
    \E screenname \in Screennames, twitter_id \in TwitterIds \cup {None} :
        LET c == Call("getUserInfo", None, None, None, None, screenname, twitter_id)
        IN  Proceed(c, getUserInfo_params(params.d, screenname, twitter_id), getUserInfo_url)

getUserTimeline ==
    \E screenname \in Screennames, twitter_id \in TwitterIds \cup {None},
       cursor \in Cursors \cup {None} :
        LET c == Call("getUserTimeline", None, cursor, None, None, screenname, twitter_id)
        IN  Proceed(c, getUserTimeline_params(params.d, screenname, twitter_id, cursor),
                    getUserTimeline_url)

Next ==
    \/ getLatestReplies
    \/ getRetweets
    \/ searchTweet
    \/ getTweetInfo
    \/ getTweetThread
    \/ getUserInfo
    \/ getUserTimeline

Spec == Init /\ [][Next]_vars

(***************************************************************************)
(* Two threads calling the same client.  A thread runs one statement of    *)
(* its method at a time: the reset of self.params, each write into the     *)
(* dict self.params is bound to at that moment, the requests.get that      *)
(* reads self.params.                                                      *)
(***************************************************************************)
SharedCalls ==
    { Call("getLatestReplies", <<"7">>, None, None, None, None, None),
      Call("getRetweets", <<"-", "7">>, None, None, None, None, None),
      Call("getTweetInfo", <<"0">>, None, None, None, None, None),
      Call("getTweetThread", <<"7">>, <<"c", "1">>, None, None, None, None),
      Call("getTweetThread", <<"-">>, None, None, None, None, None),
      Call("searchTweet", None, None, <<"x">>, <<"T", "o", "p">>, None, None),
      Call("getUserInfo", None, None, None, None, <<"a", "l">>, None),
      Call("getUserTimeline", None, <<"c", "1">>, None, None, <<"b", "o">>, <<"1", "2">>) }

Valid(c) ==
    CASE c.op = "getLatestReplies" -> getLatestReplies_valid(c.id)
      [] c.op = "getRetweets" -> getRetweets_valid(c.id)
      [] c.op = "searchTweet" -> searchTweet_valid(c.search_type)
      [] c.op = "getTweetInfo" -> getTweetInfo_valid(c.id)
      [] c.op = "getTweetThread" -> getTweetThread_valid(c.id)
      [] OTHER -> TRUE

Writes(c) ==
    CASE c.op = "getLatestReplies" -> getLatestReplies_writes(c.id)
      [] c.op = "getRetweets" -> getRetweets_writes(c.id)
      [] c.op = "searchTweet" -> searchTweet_writes(c.keyword, c.search_type, c.cursor)
      [] c.op = "getTweetInfo" -> getTweetInfo_writes(c.id)
      [] c.op = "getTweetThread" -> getTweetThread_writes(c.id, c.cursor)
      [] c.op = "getUserInfo" -> getUserInfo_writes(c.screenname, c.twitter_id)
      [] c.op = "getUserTimeline" -> getUserTimeline_writes(c.screenname, c.twitter_id, c.cursor)
      [] OTHER -> <<>>

UrlOf(c) ==
    CASE c.op = "getLatestReplies" -> getLatestReplies_url
      [] c.op = "getRetweets" -> getRetweets_url
      [] c.op = "searchTweet" -> searchTweet_url
      [] c.op = "getTweetInfo" -> getTweetInfo_url
      [] c.op = "getTweetThread" -> getTweetThread_url
      [] c.op = "getUserInfo" -> getUserInfo_url
      [] OTHER -> getUserTimeline_url

\* a thread enters a method; validation reads only the arguments
Invoke(t) ==
    /\ th[t].pc \in {"idle", "done"}
    /\ \E c \in SharedCalls :
          th' = [th EXCEPT ![t] =
                    IF Valid(c)
                    THEN [pc |-> "reset", call |-> c, todo |-> <<>>, sent |-> <<>>,
                          result |-> Raised("none")]
                    ELSE [pc |-> "done", call |-> c, todo |-> <<>>, sent |-> <<>>,
                          result |-> Raised("InvalidArgument")]]
    /\ UNCHANGED <<key, host, APIheaders, params, call, sent, result, prev_names>>

\* self.params = {}
ResetParams(t) ==
    /\ th[t].pc = "reset"
    /\ params' = Bound(EmptyDict)
    /\ th' = [th EXCEPT ![t].pc = "write", ![t].todo = Writes(th[t].call)]
    /\ UNCHANGED <<key, host, APIheaders, call, sent, result, prev_names>>

\* self.params[name] = value
WriteParam(t) ==
    /\ th[t].pc = "write"
    /\ th[t].todo # <<>>
    /\ params' = Bound(DictSet(params.d, th[t].todo[1][1], th[t].todo[1][2]))
    /\ th' = [th EXCEPT ![t].todo = Tail(@)]
    /\ UNCHANGED <<key, host, APIheaders, call, sent, result, prev_names>>

\* requests.get(url, headers = self.APIheaders, params = self.params); response.json()
Get(t) ==
    /\ th[t].pc = "write"
    /\ th[t].todo = <<>>
    /\ \E net \in Nets :
          LET x == Exchange(UrlOf(th[t].call), APIheaders, params.d, net)
          IN  th' = [th EXCEPT ![t].pc = "done", ![t].sent = x.sent, ![t].result = x.result]
    /\ UNCHANGED <<key, host, APIheaders, params, call, sent, result, prev_names>>

NextShared == \E t \in Threads : Invoke(t) \/ ResetParams(t) \/ WriteParam(t) \/ Get(t)

SpecShared == Init /\ [][NextShared]_vars

(***************************************************************************)
(* What the interface description expects of a call, stated from the       *)
(* arguments alone                                                         *)
(***************************************************************************)
IdOps == {"getLatestReplies", "getRetweets", "getTweetInfo", "getTweetThread"}

UserOps == {"getUserInfo", "getUserTimeline"}

\* s is (whitespace) (sign) digits, single underscores allowed between digits, (whitespace)
IsIntegerLiteral(s) ==
    \E a \in 0..Len(s), b \in 0..Len(s) :
        /\ a <= b
        /\ \A i \in 1..a : s[i] \in Whitespace
        /\ \A i \in (b + 1)..Len(s) : s[i] \in Whitespace
        /\ LET m == SubSeq(s, a + 1, b)
               n == IF m # <<>> /\ m[1] \in {"+", "-"} THEN Tail(m) ELSE m
           IN  /\ n # <<>>
               /\ \A i \in 1..Len(n) :
                     \/ n[i] \in Digits
                     \/ /\ n[i] = "_"
                        /\ 1 < i
                        /\ i < Len(n)
                        /\ n[i - 1] \in Digits
                        /\ n[i + 1] \in Digits

FiveTypes ==
    { <<"T", "O", "P">>, <<"L", "A", "T", "E", "S", "T">>, <<"M", "E", "D", "I", "A">>,
      <<"P", "E", "O", "P", "L", "E">>, <<"L", "I", "S", "T", "S">> }

ExpectedNames(c) ==
    CASE c.op \in {"getLatestReplies", "getRetweets", "getTweetInfo"} -> {"id"}
      [] c.op = "getTweetThread" -> {"id"} \cup (IF c.cursor # None THEN {"cursor"} ELSE {})
      [] c.op = "searchTweet" ->
            {"query"} \cup (IF upper(c.search_type) \in FiveTypes THEN {"search_types"} ELSE {})
                      \cup (IF c.cursor # None THEN {"cursor"} ELSE {})
      [] c.op = "getUserInfo" ->
            {"screenname"} \cup (IF c.twitter_id # None THEN {"rest_id"} ELSE {})
      [] c.op = "getUserTimeline" ->
            {"screenname"} \cup (IF c.twitter_id # None THEN {"rest_id"} ELSE {})
                           \cup (IF c.cursor # None THEN {"cursor"} ELSE {})
      [] OTHER -> {}

ExpectedValue(c, n) ==
    CASE n = "id" -> c.id
      [] n = "cursor" -> c.cursor
      [] n = "query" -> c.keyword
      [] n = "search_types" -> upper(c.search_type)
      [] n = "screenname" -> c.screenname
      [] OTHER -> c.twitter_id

ExpectedParams(c) == [n \in ExpectedNames(c) |-> ExpectedValue(c, n)]

ConstructorHeaders(k, h) ==
    [n \in {"X-RapidAPI-Key", "X-RapidAPI-Host"} |-> IF n = "X-RapidAPI-Key" THEN k ELSE h]

\* C1: an id that is no integer literal makes getLatestReplies, getRetweets,
\* getTweetInfo and getTweetThread end with InvalidArgument, and no GET is
\* issued during the call.
C1_NonIntegerIdRejected ==
    (call.op \in IdOps /\ ~IsIntegerLiteral(call.id))
        => (result.kind = "InvalidArgument" /\ sent = <<>>)

C1_Witness ==
    /\ call.op = "getTweetThread"
    /\ call.id = <<"7", "_">>
    /\ result.kind = "InvalidArgument"

\* C2: an id that is an integer literal (negative and zero included) makes the
\* four id methods issue exactly one GET whose id parameter is the string as
\* given; getTweetThread adds cursor exactly when a cursor was supplied and
\* nothing else is sent.
C2_IntegerIdSentUnchanged ==
    (call.op \in IdOps /\ IsIntegerLiteral(call.id))
        => /\ Len(sent) = 1
           /\ DOMAIN sent[1].params =
                 {"id"} \cup (IF call.op = "getTweetThread" /\ call.cursor # None
                              THEN {"cursor"} ELSE {})
           /\ \A n \in DOMAIN sent[1].params :
                 sent[1].params[n] = (IF n = "id" THEN call.id ELSE call.cursor)

C2_Witness ==
    /\ call.op = "getTweetThread"
    /\ call.id = <<" ", "-", "7", " ">>
    /\ call.cursor = None
    /\ Len(sent) = 1
    /\ sent[1].params = [n \in {"id"} |-> <<" ", "-", "7", " ">>]

\* C3: searchTweet upper-cases searchType; one of the five types is sent as
\* search_types next to query=keyword, the empty string sends query alone, any
\* other value ends with InvalidArgument and no request; cursor is sent exactly
\* when supplied.
C3_SearchTypeNormalised ==
    (call.op = "searchTweet")
        => LET u == upper(call.search_type)
               cur == IF call.cursor # None THEN {"cursor"} ELSE {}
           IN  IF u \in FiveTypes
               THEN /\ Len(sent) = 1
                    /\ DOMAIN sent[1].params = {"query", "search_types"} \cup cur
                    /\ \A n \in DOMAIN sent[1].params :
                          sent[1].params[n] =
                              (IF n = "query" THEN call.keyword
                               ELSE IF n = "search_types" THEN u ELSE call.cursor)
               ELSE IF u = <<>>
               THEN /\ Len(sent) = 1
                    /\ DOMAIN sent[1].params = {"query"} \cup cur
                    /\ \A n \in DOMAIN sent[1].params :
                          sent[1].params[n] = (IF n = "query" THEN call.keyword ELSE call.cursor)
               ELSE result.kind = "InvalidArgument" /\ sent = <<>>

C3_Witness ==
    /\ call.op = "searchTweet"
    /\ call.search_type = <<"l", "a", "t", "e", "s", "t">>
    /\ call.cursor # None
    /\ Len(sent) = 1
    /\ sent[1].params =
          [n \in {"query", "search_types", "cursor"} |->
              IF n = "query" THEN call.keyword
              ELSE IF n = "search_types" THEN <<"L", "A", "T", "E", "S", "T">> ELSE call.cursor]

\* C4: every request of a client constructed with host h goes to authority h.
C4_RequestsGoToConfiguredHost ==
    (sent # <<>>) => (sent[1].url.authority = host)

\* C5: with two calls of different arguments overlapping on one client, the
\* request each call sends carries exactly the parameters of its own arguments.
C5_ConcurrentCallsIsolated ==
    (th[1].call # th[2].call /\ th[1].call # NoCall /\ th[2].call # NoCall)
        => \A t \in Threads :
              (th[t].sent # <<>>) => (th[t].sent[1].params = ExpectedParams(th[t].call))

\* C6: getUserInfo and getUserTimeline never reject; screenname is always sent
\* as given, rest_id exactly when twitterId was supplied, cursor (getUserTimeline
\* only) exactly when supplied, whatever rest_id does; nothing else is sent.
C6_UserParams ==
    (call.op \in UserOps)
        => /\ result.kind # "InvalidArgument"
           /\ Len(sent) = 1
           /\ LET p == sent[1].params
              IN  /\ "screenname" \in DOMAIN p
                  /\ ("rest_id" \in DOMAIN p) <=> (call.twitter_id # None)
                  /\ ("cursor" \in DOMAIN p) <=>
                        (call.op = "getUserTimeline" /\ call.cursor # None)
                  /\ DOMAIN p \subseteq {"screenname", "rest_id", "cursor"}
                  /\ \A n \in DOMAIN p :
                        p[n] = (IF n = "screenname" THEN call.screenname
                                ELSE IF n = "rest_id" THEN call.twitter_id ELSE call.cursor)

C6_Witness ==
    /\ call.op = "getUserTimeline"
    /\ call.twitter_id = None
    /\ call.cursor # None
    /\ Len(sent) = 1
    /\ DOMAIN sent[1].params = {"screenname", "cursor"}

\* C7: no method changes key, host or the header set, and every request carries
\* exactly X-RapidAPI-Key = key and X-RapidAPI-Host = host.
C7_ConfigImmutable ==
    /\ [][key' = key /\ host' = host /\ APIheaders' = APIheaders]_vars
    /\ [](/\ APIheaders = ConstructorHeaders(key, host)
          /\ \A i \in 1..Len(sent) : sent[i].headers = ConstructorHeaders(key, host))

C7_Witness ==
    /\ host # DefaultHost
    /\ call.op = "searchTweet"
    /\ Len(sent) = 1
    /\ sent[1].headers["X-RapidAPI-Host"] = host
    /\ sent[1].headers["X-RapidAPI-Key"] = key

\* C8: with calls one after another, the request of a call carries the
\* parameters of that call's arguments and nothing an earlier call left, and
\* the stored mapping is the one just sent.
C8_ParamsRebuiltPerCall ==
    (sent # <<>>)
        => /\ sent[1].params = ExpectedParams(call)
           /\ params = Bound(sent[1].params)

C8_Witness ==
    /\ {"cursor", "rest_id"} \subseteq prev_names
    /\ call.op = "getTweetInfo"
    /\ Len(sent) = 1
    /\ DOMAIN sent[1].params = {"id"}

\* C9: a call that ends with InvalidArgument sends nothing and leaves key,
\* host, headers and the stored parameter mapping as they were before it.
C9_FailedCallChangesNothing ==
    [][(result'.kind = "InvalidArgument")
         => /\ params' = params
            /\ sent' = <<>>
            /\ key' = key
            /\ host' = host
            /\ APIheaders' = APIheaders]_vars

C9_Witness ==
    /\ call.op = "searchTweet"
    /\ result.kind = "InvalidArgument"
    /\ sent = <<>>
    /\ params.bound
    /\ "rest_id" \in DOMAIN params.d

\* C10: a call that passes validation attempts exactly one GET; a transport
\* failure or an undecodable body ends the call with that failure and no value,
\* without a second request; otherwise the decoded JSON is returned as is.
C10_SingleAttempt ==
    /\ Len(sent) <= 1
    /\ (call.op # "none" /\ result.kind # "InvalidArgument") => Len(sent) = 1
    /\ (Len(sent) = 1) =>
          LET net == sent[1].net
          IN  IF net.kind = "raise" THEN result = Raised("TransportFailure")
              ELSE IF ~IsJson(net.body) THEN result = Raised("DecodeFailure")
              ELSE result = [kind |-> "ok", value |-> json(net.body)]

C10_Witness ==
    /\ Len(sent) = 1
    /\ sent[1].net.kind = "raise"
    /\ result.kind = "TransportFailure"

====
